---- MODULE Spec2Model ----
(***************************************************************************)
(* A model of the DNS / mDNS wire-format parser of fabrlyn/dns_parser.     *)
(*                                                                         *)
(* A datagram is a sequence of bytes (0..255).  Rust indexes from 0 and    *)
(* TLA+ sequences from 1: At(s, i) is s[i] of the source.                  *)
(* message::parse is a state machine: one action for the header, one per   *)
(* iteration of each section loop, one per section end.  A Rust panic      *)
(* (an index or slice out of range) is the result "panic".                 *)
(***************************************************************************)
EXTENDS Integers, Sequences, FiniteSets, TLC

(***************************************************************************)
(* Byte and slice helpers                                                  *)
(***************************************************************************)
Byte == 0..255

At(s, i) == s[i + 1]

\* &data[from..]  (the caller guarantees from <= Len(s))
SliceFrom(s, from) == SubSeq(s, from + 1, Len(s))

\* &data[from..to]
Slice(s, from, to) == SubSeq(s, from + 1, to)

\* (a as u16) << 8 | b as u16
U16(a, b) == a * 256 + b

\* u32::from_be_bytes, kept as its high and low 16-bit halves
U32(a, b, c, d) == [hi |-> U16(a, b), lo |-> U16(c, d)]

Max(a, b) == IF a > b THEN a ELSE b

Ok(v) == [ok |-> TRUE, err |-> "", msg |-> "", val |-> v]

Err(kind, text) == [ok |-> FALSE, err |-> kind, msg |-> text, val |-> <<>>]

Panic(text) == Err("panic", text)

(***************************************************************************)
(* header.rs                                                               *)
(***************************************************************************)
HEADER_SIZE == 12

parse_header_message_id(header) == U16(At(header, 0), At(header, 1))

parse_header_query_or_response(header) ==
  IF At(header, 2) \div 128 = 1 THEN "Response" ELSE "Query"

parse_header_op_code_value(header) == (At(header, 2) % 128) \div 8

parse_header_op_code(header) ==
  LET op_code == (At(header, 2) % 128) \div 8
  IN CASE op_code = 0 -> "Query"
       [] op_code = 1 -> "InverseQuery"
       [] op_code = 2 -> "Status"
       [] OTHER -> "Other"

parse_header_authoritative_answer(header) ==
  IF (At(header, 2) \div 4) % 2 = 1 THEN "Authoritative" ELSE "NotAuthoritative"

parse_header_truncated(header) ==
  IF (At(header, 2) \div 2) % 2 = 1 THEN "Truncated" ELSE "NotTruncated"

parse_header_recursion_desired(header) ==
  IF At(header, 2) % 2 = 1 THEN "RecursionDesired" ELSE "RecursionNotDesired"

parse_header_recursion_available(header) ==
  IF At(header, 3) \div 128 = 1 THEN "RecursionAvailable" ELSE "RecursionNotAvailable"

\* (mutant) the mask without the shift
parse_header_z_Unshifted(header) == ((At(header, 3) % 128) \div 16) * 16

parse_header_z(header) == (At(header, 3) % 128) \div 16

parse_header_response_code_value(header) == At(header, 3) % 16

parse_header_r_code(header) ==
  LET r_code == At(header, 3) % 16
  IN CASE r_code = 0 -> "NoError"
       [] r_code = 1 -> "FormatError"
       [] r_code = 2 -> "ServerFailure"
       [] r_code = 3 -> "NameError"
       [] r_code = 4 -> "NotImplemented"
       [] r_code = 5 -> "Refused"
       [] OTHER -> "Other"

parse_header_qd_count(header) == U16(At(header, 4), At(header, 5))

parse_header_an_count(header) == U16(At(header, 6), At(header, 7))

parse_header_ns_count(header) == U16(At(header, 8), At(header, 9))

parse_header_ar_count(header) == U16(At(header, 10), At(header, 11))

\* The header of a datagram that has not been decoded (yet).
NoHeader ==
  [id |-> 0, query_or_response |-> "Query", operation_code |-> "Query",
   operation_code_value |-> 0, authoritative_answer |-> "NotAuthoritative",
   truncation |-> "NotTruncated", recursion_desired |-> "RecursionNotDesired",
   recursion_available |-> "RecursionNotAvailable", z |-> 0,
   response_code |-> "NoError", response_code_value |-> 0,
   question_count |-> 0, answer_count |-> 0, name_server_count |-> 0,
   additional_count |-> 0]

\* (mutant) the comparison off by one: a bare 12-byte header is refused
HeaderTooShort_OffByOne(data) == Len(data) <= HEADER_SIZE

\* data.len() < HEADER_SIZE
HeaderTooShort(data) == Len(data) < HEADER_SIZE

parse_header(data) ==
  IF HeaderTooShort(data)
  THEN Err("HeaderError", "Data is smaller than header")
  ELSE LET header == Slice(data, 0, HEADER_SIZE)
       IN Ok([id |-> parse_header_message_id(header),
              query_or_response |-> parse_header_query_or_response(header),
              operation_code |-> parse_header_op_code(header),
              operation_code_value |-> parse_header_op_code_value(header),
              authoritative_answer |-> parse_header_authoritative_answer(header),
              truncation |-> parse_header_truncated(header),
              recursion_desired |-> parse_header_recursion_desired(header),
              recursion_available |-> parse_header_recursion_available(header),
              z |-> parse_header_z(header),
              response_code |-> parse_header_r_code(header),
              response_code_value |-> parse_header_response_code_value(header),
              question_count |-> parse_header_qd_count(header),
              answer_count |-> parse_header_an_count(header),
              name_server_count |-> parse_header_ns_count(header),
              additional_count |-> parse_header_ar_count(header)])

(***************************************************************************)
(* shared.rs: labels                                                       *)
(***************************************************************************)
LABEL_TYPE_MASK == 192

LABEL_MASK_TYPE_VALUE == 0

LABEL_MASK_TYPE_POINTER == 192

\* LABEL_TYPE_MASK & b: the mask is the two high bits of a byte
LabelTypeBits(b) == (b \div 64) * 64

\* Label::Value(offset, Some(bytes)); Label::Value(offset, None) has value = <<>>
\* (a count of 0 yields None, so Some is never empty)
LabelValue(offset, bytes) ==
  [kind |-> "Value", offset |-> offset, value |-> bytes, pointer |-> 0]

LabelPointer(offset, target) ==
  [kind |-> "Pointer", offset |-> offset, value |-> <<>>, pointer |-> target]

IsRoot(label) == label.kind = "Value" /\ label.value = <<>>

IsPointer(label) == label.kind = "Pointer"

\* Label::size
LabelSize(label) ==
  IF IsPointer(label) THEN 2
  ELSE IF IsRoot(label) THEN 1
  ELSE Len(label.value) + 1

RECURSIVE SumSizes(_)
\* values.iter().fold(0, |sum, l| sum + l.size())
SumSizes(values) ==
  IF values = <<>> THEN 0
  ELSE LabelSize(Head(values)) + SumSizes(Tail(values))

\* std::str::from_utf8: the byte string is well-formed UTF-8
RECURSIVE IsUtf8(_)
IsUtf8(bytes) ==
  LET n == Len(bytes)
      Cont(i) == i <= n /\ bytes[i] \in 128..191
      In(i, lo, hi) == i <= n /\ bytes[i] \in lo..hi
      b == bytes[1]
      Rest(k) == IsUtf8(SubSeq(bytes, k + 1, n))
  IN IF n = 0 THEN TRUE
     ELSE IF b < 128 THEN Rest(1)
     ELSE IF b \in 194..223 THEN Cont(2) /\ Rest(2)
     ELSE IF b = 224 THEN In(2, 160, 191) /\ Cont(3) /\ Rest(3)
     ELSE IF b \in (225..236) \cup {238, 239} THEN Cont(2) /\ Cont(3) /\ Rest(3)
     ELSE IF b = 237 THEN In(2, 128, 159) /\ Cont(3) /\ Rest(3)
     ELSE IF b = 240 THEN In(2, 144, 191) /\ Cont(3) /\ Cont(4) /\ Rest(4)
     ELSE IF b \in 241..243 THEN Cont(2) /\ Cont(3) /\ Cont(4) /\ Rest(4)
     ELSE IF b = 244 THEN In(2, 128, 143) /\ Cont(3) /\ Cont(4) /\ Rest(4)
     ELSE FALSE

\* count > 63
CountExceedsLimit(count) == count > 63

\* for &i in label_data { if i == 0 { return Err(...) } }
\* (mutant) only the first byte of the label is looked at
ZeroBeforeEnd_FirstByte(label_data) == label_data[1] = 0

ZeroBeforeEnd(label_data) == \E i \in 1..Len(label_data) : label_data[i] = 0

parse_label_value(current_offset, data) ==
  IF Len(data) = 0 THEN Err("QueryLabelError", "Data is zero length")
  ELSE LET count == At(data, 0)
       IN IF count = 0 THEN Ok(LabelValue(current_offset, <<>>))
          ELSE IF CountExceedsLimit(count)
          THEN Err("QueryLabelError", "Count exceeds limit of 63")
          ELSE IF count > Len(data) - 1
          THEN Err("QueryLabelError", "Wrong label count. Count would overflow data")
          ELSE LET label_data == Slice(data, 1, count + 1)
               IN IF ZeroBeforeEnd(label_data)
                  THEN Err("QueryLabelError", "Zero encountered before end of label")
                  ELSE IF IsUtf8(label_data)
                  THEN Ok(LabelValue(current_offset, label_data))
                  ELSE Err("QueryLabelError", "invalid utf-8 sequence")

parse_label_pointer(current_offset, data) ==
  IF Len(data) < 2
  THEN Err("QueryLabelError",
           "Trying to parse pointer label, but data is not long enough")
  \* !LABEL_MASK_TYPE_POINTER & data[0]: the six low bits
  ELSE Ok(LabelPointer(current_offset, U16(At(data, 0) % 64, At(data, 1))))


(***************************************************************************)
(* shared.rs: parse_name                                                   *)
(***************************************************************************)
\* index += label.size()
\* (mutant) index = label.size(): the index is set, not advanced
NextIndex_Assign(index, label) == LabelSize(label)

NextIndex(index, label) == index + LabelSize(label)

\* current_offset += label.size() as u16
\* (mutant) the offset is not advanced: every label of a name records the
\* offset of the first
NextOffset_Kept(current_offset_, label) == current_offset_

NextOffset(current_offset_, label) == current_offset_ + LabelSize(label)

\* the loop returns after a pointer or a root label
\* (mutant) only the root label returns: the loop goes on after a pointer
EndsName_RootOnly(label) == IsRoot(label)

EndsName(label) == IsPointer(label) \/ IsRoot(label)

WithSteps(r, n) ==
  [ok |-> r.ok, err |-> r.err, msg |-> r.msg, val |-> r.val, steps |-> n]

\* let label = match label_type { ... }
\* (mutant) only the length bits are told apart: every other first byte is
\* taken as a pointer
parse_label_TwoWay(current_offset, d) ==
  IF LabelTypeBits(At(d, 0)) = LABEL_MASK_TYPE_VALUE
  THEN parse_label_value(current_offset, d)
  ELSE parse_label_pointer(current_offset, d)

parse_label(current_offset, d) ==
  CASE LabelTypeBits(At(d, 0)) = LABEL_MASK_TYPE_POINTER ->
         parse_label_pointer(current_offset, d)
    [] LabelTypeBits(At(d, 0)) = LABEL_MASK_TYPE_VALUE ->
         parse_label_value(current_offset, d)
    [] OTHER -> Err("QueryLabelError", "Unknown label type")

\* The body of `loop` in parse_name; steps counts the iterations begun.  A
\* decoding that begins more iterations than the slice has bytes is reported
\* as "diverged" instead of being unrolled for ever.
RECURSIVE parse_name_loop(_, _, _, _, _)
\* the rest of an iteration, once its label r is decoded
parse_name_step(data, index, current_offset, values, steps, r) ==
  IF ~r.ok THEN WithSteps(r, steps + 1)
  ELSE IF EndsName(r.val)
  THEN WithSteps(Ok(Append(values, r.val)), steps + 1)
  ELSE parse_name_loop(data, NextIndex(index, r.val),
                       NextOffset(current_offset, r.val),
                       Append(values, r.val), steps + 1)

parse_name_loop(data, index, current_offset, values, steps) ==
  IF steps > Len(data)
  THEN WithSteps(Err("diverged", "more iterations than bytes"), steps)
  ELSE IF Len(data) <= index
  THEN WithSteps(Err("QueryLabelError",
                     "Index going out of bounds when parsing query values"),
                 steps)
  ELSE parse_name_step(data, index, current_offset, values, steps,
                       parse_label(current_offset, SliceFrom(data, index)))

parse_name(start_offset, data) ==
  IF Len(data) = 0
  THEN WithSteps(Err("QueryLabelError",
                     "Failed to parse query values, zero length data"), 0)
  ELSE parse_name_loop(data, 0, start_offset, <<>>, 0)

\* parse_name as resource_record.rs calls it: with an absolute offset into the
\* whole datagram.  A start at or past the end is a bounds-checked failure.
parse_name_at(offset, data) ==
  IF offset >= Len(data)
  THEN WithSteps(Err("QueryLabelError", "name starts past the end"), 0)
  ELSE parse_name(offset, SliceFrom(data, offset))

(***************************************************************************)
(* shared.rs: parse_name_v2, the decoder that borrows from the datagram     *)
(***************************************************************************)
\* LabelV2::size
LabelV2Size(label) ==
  IF IsPointer(label) THEN 2
  ELSE IF IsRoot(label) THEN 1
  ELSE Len(label.value) + 1

\* let data = &data[offset..]; and then as parse_label_value, without the
\* conversion to a string
parse_label_value_v2(offset, d) ==
  IF offset > Len(d) THEN Panic("slice start out of range: parse_label_value_v2")
  ELSE LET sliced == SliceFrom(d, offset)
           count == At(sliced, 0)
           label_data == Slice(sliced, 1, count + 1)
       IN IF Len(sliced) = 0 THEN Err("QueryLabelError", "Data is zero length")
          ELSE IF count = 0 THEN Ok(LabelValue(offset, <<>>))
          ELSE IF CountExceedsLimit(count)
          THEN Err("QueryLabelError", "Count exceeds limit of 63")
          ELSE IF count > Len(sliced) - 1
          THEN Err("QueryLabelError", "Wrong label count. Count would overflow data")
          ELSE IF ZeroBeforeEnd(label_data)
          THEN Err("QueryLabelError", "Zero encountered before end of label")
          ELSE Ok(LabelValue(offset, label_data))

parse_label_pointer_v2(offset, d) ==
  IF Len(d) < 2
  THEN Err("QueryLabelError",
           "Trying to parse pointer label, but data is not long enough")
  ELSE Ok(LabelPointer(offset, U16(At(d, 0) % 64, At(d, 1))))

\* let label = match label_type { ... } of parse_name_v2
parse_label_v2(current_offset_, d) ==
  CASE LabelTypeBits(At(d, 0)) = LABEL_MASK_TYPE_POINTER ->
         parse_label_pointer_v2(current_offset_, d)
    [] LabelTypeBits(At(d, 0)) = LABEL_MASK_TYPE_VALUE ->
         parse_label_value_v2(current_offset_, d)
    [] OTHER -> Err("QueryLabelError", "Unknown label type")

RECURSIVE parse_name_v2_loop(_, _, _, _)
\* the rest of an iteration of parse_name_v2, once its label r is decoded
parse_name_v2_step(d, index, current_offset_, values, r) ==
  IF ~r.ok THEN r
  ELSE IF EndsName(r.val) THEN Ok(Append(values, r.val))
  ELSE parse_name_v2_loop(d, index + LabelV2Size(r.val),
                          current_offset_ + LabelV2Size(r.val),
                          Append(values, r.val))

parse_name_v2_loop(d, index, current_offset_, values) ==
  IF Len(d) <= index
  THEN Err("QueryLabelError",
           "Index going out of bounds when parsing query values")
  ELSE parse_name_v2_step(d, index, current_offset_, values,
                          parse_label_v2(current_offset_, SliceFrom(d, index)))

parse_name_v2(offset, d) ==
  IF Len(d) = 0
  THEN Err("QueryLabelError", "Failed to parse query values, zero length data")
  ELSE parse_name_v2_loop(d, 0, offset, <<>>)

(***************************************************************************)
(* shared.rs: name resolution against the label store                      *)
(***************************************************************************)
RECURSIVE SkipWhileNotAt(_, _)
\* skip_while: drop labels until a Value label recorded at pointer_offset
SkipWhileNotAt(labels, pointer_offset) ==
  IF labels = <<>> THEN <<>>
  ELSE IF Head(labels).kind = "Value" /\ Head(labels).offset = pointer_offset
  THEN labels
  ELSE SkipWhileNotAt(Tail(labels), pointer_offset)

RECURSIVE TakeThroughRoot(_)
\* take_while with end_found: keep labels up to and including the first root
TakeThroughRoot(labels) ==
  IF labels = <<>> THEN <<>>
  ELSE IF IsRoot(Head(labels)) THEN <<Head(labels)>>
  ELSE <<Head(labels)>> \o TakeThroughRoot(Tail(labels))

read_until_termination_label_from_offset(labels, pointer_offset) ==
  TakeThroughRoot(SkipWhileNotAt(labels, pointer_offset))

RECURSIVE resolve_name(_, _)
resolve_name(all_labels, to_resolve) ==
  IF to_resolve = <<>> THEN <<>>
  ELSE LET label == Head(to_resolve)
           here == IF IsPointer(label)
                   THEN read_until_termination_label_from_offset(all_labels,
                                                                 label.pointer)
                   ELSE <<label>>
       IN here \o resolve_name(all_labels, Tail(to_resolve))

\* extract_domain_name(label_store, &values): the resolved labels of the name
extract_domain_name(label_store_, values) == resolve_name(label_store_, values)

(***************************************************************************)
(* shared.rs / query.rs: type and class                                    *)
(***************************************************************************)
parse_class(data) ==
  LET class == U16(data[1], data[2])
  IN CASE class = 1 -> "IN"
       [] class = 2 -> "CS"
       [] class = 3 -> "CH"
       [] class = 4 -> "HS"
       [] OTHER -> "Invalid"

TypeNames ==
  <<"A", "NS", "MD", "MF", "CNAME", "SOA", "MB", "MG", "MR", "NULL", "WKS",
    "PTR", "HINFO", "MINFO", "MX", "TXT">>

\* (mutant) the table of types is read one place too far
parse_type_OffByOne(data) ==
  LET t == U16(data[1], data[2])
  IN IF t \in 0..15 THEN TypeNames[t + 1] ELSE "Invalid"

parse_type(data) ==
  LET t == U16(data[1], data[2])
  IN IF t \in 1..16 THEN TypeNames[t] ELSE "Invalid"

parse_q_class(data) ==
  LET class == U16(data[1], data[2])
  IN IF class = 255 THEN [q |-> "Any", class |-> ""]
     ELSE [q |-> "Class", class |-> parse_class(data)]

parse_q_response_type(b) == IF b \div 128 = 1 THEN "QU" ELSE "QM"

parse_q_type(data) ==
  LET q_type == U16(data[1] % 128, data[2])
      response_type == parse_q_response_type(data[1])
  IN <<response_type,
       CASE q_type = 252 -> [q |-> "AXFR", type |-> ""]
         [] q_type = 253 -> [q |-> "MAILB", type |-> ""]
         [] q_type = 254 -> [q |-> "MAILA", type |-> ""]
         [] q_type = 255 -> [q |-> "Any", type |-> ""]
         [] OTHER -> [q |-> "Type", type |-> parse_type(data)]>>

(***************************************************************************)
(* query.rs                                                                *)
(***************************************************************************)
\* Query::size
\* (mutant) the fold starts at 0: the type and class fields are not counted
QuerySize_NameOnly(query) == SumSizes(query.values)

QuerySize(query) == 2 + 2 + SumSizes(query.values)

\* parse_query after its name n is decoded
parse_query_fields(data, n, offset) ==
  IF Len(data) < offset + 4
  THEN WithSteps(Err("QueryError", "Data not long enough for query"), n.steps)
  ELSE WithSteps(
         Ok([values |-> n.val,
             q_response_type |-> parse_q_type(Slice(data, offset, offset + 2))[1],
             q_type |-> parse_q_type(Slice(data, offset, offset + 2))[2],
             q_class |-> parse_q_class(Slice(data, offset + 2, offset + 4))]),
         n.steps)

parse_query_named(data, n) ==
  IF ~n.ok THEN n ELSE parse_query_fields(data, n, SumSizes(n.val))

parse_query(current_offset, data) ==
  parse_query_named(data, parse_name(current_offset, data))

(***************************************************************************)
(* resource_record.rs                                                      *)
(***************************************************************************)
RRType(tag, n) == [tag |-> tag, n |-> n]

\* (mutant) a type without a name of its own loses its number
parse_resource_record_type_Unnumbered(data) ==
  LET n == U16(data[1], data[2])
  IN CASE n = 1 -> RRType("A", n)
       [] n = 12 -> RRType("PTR", n)
       [] n = 16 -> RRType("TXT", n)
       [] n = 28 -> RRType("AAAA", n)
       [] n = 33 -> RRType("SRV", n)
       [] OTHER -> RRType("Other", 0)

parse_resource_record_type(data) ==
  LET n == U16(data[1], data[2])
  IN CASE n = 1 -> RRType("A", n)
       [] n = 2 -> RRType("NS", n)
       [] n = 5 -> RRType("CNAME", n)
       [] n = 6 -> RRType("SOA", n)
       [] n = 12 -> RRType("PTR", n)
       [] n = 15 -> RRType("MX", n)
       [] n = 16 -> RRType("TXT", n)
       [] n = 28 -> RRType("AAAA", n)
       [] n = 33 -> RRType("SRV", n)
       [] n = 41 -> RRType("OPT", n)
       [] n = 47 -> RRType("NSEC", n)
       [] OTHER -> RRType("Other", n)

parse_ttl(data) == U32(data[1], data[2], data[3], data[4])

parse_resource_data_length(data) == U16(data[1], data[2])

\* ResourceRecordData: bytes for A, AAAA, TXT and Other, the three integers
\* for SRV, the resolved name for PTR
RData(tag, bytes, name) == [tag |-> tag, bytes |-> bytes, name |-> name]

\* the result of an RDATA decoder: the data and the label store it leaves
RDataOk(rdata, store) == Ok([rdata |-> rdata, label_store |-> store])

\* to_ascii: every byte becomes the char with that code point
to_ascii(bytes) == [i \in 1..Len(bytes) |-> bytes[i]]

\* data[offset], ..., data[offset + n - 1] are all inside the datagram
InRange(data, offset, n) == offset + n <= Len(data)

parse_resource_record_data_ip_a(offset, resource_data_length, data) ==
  IF Len(data) < 4
  THEN Err("ResourceRecordError", "Data would overflow when parsing IPv4 resource")
  ELSE IF ~InRange(data, offset, 4) THEN Panic("index out of bounds: A")
  ELSE Ok(RData("A", Slice(data, offset, offset + 4), <<>>))

parse_resource_record_data_ip_aaaa(offset, resource_data_length, data) ==
  IF Len(data) < 16
  THEN Err("ResourceRecordError", "Data would overflow when parsing IPv4 resource")
  ELSE IF ~InRange(data, offset, 16) THEN Panic("index out of bounds: AAAA")
  ELSE Ok(RData("AAAA", Slice(data, offset, offset + 16), <<>>))

parse_resource_record_data_srv(offset, resource_record_length, data) ==
  IF ~InRange(data, offset, resource_record_length)
  THEN Panic("slice out of range: SRV")
  ELSE IF ~InRange(data, offset, 6) THEN Panic("index out of bounds: SRV")
  ELSE Ok(RData("SRV",
                <<U16(At(data, offset), At(data, offset + 1)),
                  U16(At(data, offset + 2), At(data, offset + 3)),
                  U16(At(data, offset + 4), At(data, offset + 5))>>,
                <<>>))

parse_resource_record_data_txt(offset, resource_record_length, data) ==
  IF ~InRange(data, offset, resource_record_length)
  THEN Panic("slice out of range: TXT")
  ELSE Ok(RData("TXT",
                to_ascii(Slice(data, offset, offset + resource_record_length)),
                <<>>))

\* (mutant) the RDATA runs to the end of the datagram: &data[offset..]
parse_resource_record_data_other_ToEnd(offset, resource_data_length, data) ==
  IF offset > Len(data) THEN Panic("slice out of range: Other")
  ELSE Ok(RData("Other", SliceFrom(data, offset), <<>>))

parse_resource_record_data_other(offset, resource_data_length, data) ==
  IF ~InRange(data, offset, resource_data_length)
  THEN Panic("slice out of range: Other")
  ELSE Ok(RData("Other", Slice(data, offset, offset + resource_data_length), <<>>))

\* parse_resource_record_data_ptr after its name n is decoded
parse_resource_record_data_ptr_named(store, n) ==
  IF ~n.ok THEN n
  ELSE WithSteps(RDataOk(RData("PTR", <<>>,
                               extract_domain_name(store \o n.val, n.val)),
                         store \o n.val),
                 n.steps)

parse_resource_record_data_ptr(store, offset, resource_data_length, data) ==
  parse_resource_record_data_ptr_named(store, parse_name_at(offset, data))

\* data.len() < resource_data_length as usize
RDataWouldOverflow(data, resource_data_length) == Len(data) < resource_data_length

\* an RDATA decoder that leaves the label store alone
KeepStore(r, store) == WithSteps(IF r.ok THEN RDataOk(r.val, store) ELSE r, 0)

parse_resource_record_data(store, offset, resource_record_type, resource_data_length, data) ==
  IF RDataWouldOverflow(data, resource_data_length)
  THEN WithSteps(Err("ResourceRecordError",
                     "Data would overflow parsing resource record data"), 0)
  ELSE CASE resource_record_type.tag = "A" ->
              KeepStore(parse_resource_record_data_ip_a(
                          offset, resource_data_length, data), store)
         [] resource_record_type.tag = "AAAA" ->
              KeepStore(parse_resource_record_data_ip_aaaa(
                          offset, resource_data_length, data), store)
         [] resource_record_type.tag = "SRV" ->
              KeepStore(parse_resource_record_data_srv(
                          offset, resource_data_length, data), store)
         [] resource_record_type.tag = "TXT" ->
              KeepStore(parse_resource_record_data_txt(
                          offset, resource_data_length, data), store)
         [] resource_record_type.tag = "PTR" ->
              parse_resource_record_data_ptr(store, offset,
                                             resource_data_length, data)
         [] OTHER ->
              KeepStore(parse_resource_record_data_other(
                          offset, resource_data_length, data), store)

\* ResourceRecord::size
RecordSize(record) ==
  record.resource_record_data_length + 2 + 2 + 4 + 2 + SumSizes(record.values)

\* Ok(ResourceRecord { ... }), or the error of the RDATA decoder d
parse_resource_record_built(n, name, fixed, d) ==
  IF ~d.ok THEN WithSteps(d, Max(d.steps, n.steps))
  ELSE WithSteps(
         Ok([record |->
               [values |-> n.val,
                name |-> name,
                resource_record_type |->
                  parse_resource_record_type(Slice(fixed, 0, 2)),
                class |-> parse_class(Slice(fixed, 2, 4)),
                ttl |-> parse_ttl(Slice(fixed, 4, 8)),
                resource_record_data_length |->
                  parse_resource_data_length(Slice(fixed, 8, 10)),
                resource_record_data |-> d.val.rdata],
             label_store |-> d.val.label_store]),
         Max(d.steps, n.steps))

\* parse_resource_record from the ten bytes `fixed` of TYPE, CLASS, TTL and
\* RDLENGTH on
parse_resource_record_fixed(store, next_index, data, n, name, fixed) ==
  parse_resource_record_built(
    n, name, fixed,
    parse_resource_record_data(store \o n.val, next_index + 10,
                               parse_resource_record_type(Slice(fixed, 0, 2)),
                               parse_resource_data_length(Slice(fixed, 8, 10)),
                               data))

\* parse_resource_record after its name n is decoded: data[next_index] ..
\* data[next_index + 9] are indexed without a check
parse_resource_record_named(store, data, n, next_index) ==
  IF ~InRange(data, next_index, 10)
  THEN WithSteps(Panic("index out of bounds: fixed fields"), n.steps)
  ELSE parse_resource_record_fixed(store, next_index, data, n,
                                   extract_domain_name(store, n.val),
                                   Slice(data, next_index, next_index + 10))

\* val: the record and the label store after it; steps: the most iterations
\* any one name of the record took
parse_resource_record_from(store, offset, data, n) ==
  IF ~n.ok THEN n
  ELSE parse_resource_record_named(store, data, n, offset + SumSizes(n.val))

parse_resource_record(store, offset, data) ==
  parse_resource_record_from(store, offset, data, parse_name_at(offset, data))

RECURSIVE SumRecordSizes(_)
\* records.iter().fold(start, |sum, a| sum + a.size()) - start
SumRecordSizes(records) ==
  IF records = <<>> THEN 0
  ELSE RecordSize(Head(records)) + SumRecordSizes(Tail(records))

RECURSIVE SumQuerySizes(_)
SumQuerySizes(qs) ==
  IF qs = <<>> THEN 0
  ELSE QuerySize(Head(qs)) + SumQuerySizes(Tail(qs))

(***************************************************************************)
(* Datagrams the parser is run on                                          *)
(***************************************************************************)
MaxQuestions == 2

MaxRecords == 2

HeaderBytes(f2, f3, qd, an, ns, ar) ==
  <<0, 0, f2, f3, 0, qd, 0, an, 0, ns, 0, ar>>

\* names on the wire
NameRoot == <<0>>

NameA == <<1, 97, 0>>

NamePtr12 == <<192, 12>>

NameBPtr12 == <<1, 98, 192, 12>>

NameFwdPtr == <<192, 40>>

NameAB == <<1, 97, 1, 98, 0>>

RECURSIVE Repeat(_, _)
Repeat(piece, n) == IF n = 0 THEN <<>> ELSE piece \o Repeat(piece, n - 1)

\* one label of the greatest length a length byte can declare
NameLongestLabel == <<63>> \o Repeat(<<97>>, 63) \o <<0>>

\* four labels of 63 bytes and the root: 257 bytes
NameOver255 == Repeat(<<63>> \o Repeat(<<97>>, 63), 4) \o <<0>>

WireNames ==
  {NameRoot, NameA, NameAB, NameLongestLabel, NamePtr12, NameBPtr12, NameFwdPtr,
   <<64, 0>>, <<128, 0>>, <<1, 97, 191, 0>>, <<2, 97, 0, 0>>, <<1, 255, 0>>,
   <<2, 195, 169, 0>>}

TypePTR == <<0, 12>>

ClassIN == <<0, 1>>

TypeClassPairs ==
  {<<TypePTR, ClassIN>>, <<TypePTR, <<128, 1>>>>, <<<<128, 12>>, ClassIN>>,
   <<<<0, 255>>, <<0, 255>>>>, <<<<0, 255>>, <<128, 255>>>>,
   <<<<0, 1>>, ClassIN>>, <<<<128, 1>>, ClassIN>>, <<<<0, 252>>, <<0, 5>>>>}

WireQuestion(name, type, class) == name \o type \o class

PlainQuestion == WireQuestion(NameA, TypePTR, ClassIN)

WireQuestions ==
  {WireQuestion(n, TypePTR, ClassIN) : n \in WireNames}
    \cup {WireQuestion(NameA, tc[1], tc[2]) : tc \in TypeClassPairs}

Ttl120 == <<0, 0, 0, 120>>

WireRecord(name, type, class, rdlength, rdata) ==
  name \o type \o class \o Ttl120 \o <<0, rdlength>> \o rdata

PlainRecord == WireRecord(NameRoot, <<0, 1>>, ClassIN, 4, <<192, 168, 1, 137>>)

PtrRecord == WireRecord(NameA, TypePTR, ClassIN, 2, <<192, 12>>)

WireRecords ==
  {PlainRecord, PtrRecord,
   WireRecord(NamePtr12, <<0, 1>>, <<128, 1>>, 4, <<10, 0, 0, 1>>),
   WireRecord(NameRoot, <<0, 1>>, ClassIN, 10, <<10, 0, 0, 1>>),
   WireRecord(NameRoot, <<0, 1>>, ClassIN, 2, <<10, 0>>),
   WireRecord(NameA, <<0, 16>>, <<128, 1>>, 0, <<>>),
   WireRecord(NameRoot, <<0, 16>>, ClassIN, 4, <<1, 97, 1, 98>>),
   WireRecord(NameRoot, <<0, 16>>, ClassIN, 3, <<5, 97, 98>>),
   WireRecord(NameRoot, TypePTR, ClassIN, 5, <<1, 99, 0>>),
   WireRecord(NameBPtr12, TypePTR, ClassIN, 1, <<1, 99, 192, 12>>),
   WireRecord(NameRoot, TypePTR, ClassIN, 2, <<64, 0>>),
   WireRecord(NameBPtr12, TypePTR, ClassIN, 2, <<192, 19>>),
   WireRecord(NameRoot, <<1, 1>>, ClassIN, 2, <<7, 8>>),
   WireRecord(NameRoot, <<0, 41>>, <<5, 160>>, 3, <<0, 4, 0>>),
   WireRecord(NameRoot, <<0, 28>>, ClassIN, 16,
              <<254, 128, 0, 0, 0, 0, 0, 0, 0, 0, 0, 0, 0, 0, 0, 1>>),
   WireRecord(NameRoot, <<0, 33>>, ClassIN, 7, <<0, 1, 0, 2, 0, 80, 0>>),
   WireRecord(NameRoot, <<0, 33>>, ClassIN, 2, <<0, 1>>),
   WireRecord(<<128, 0>>, <<0, 1>>, ClassIN, 4, <<10, 0, 0, 1>>),
   WireRecord(NameFwdPtr, <<0, 1>>, ClassIN, 4, <<10, 0, 0, 1>>),
   WireRecord(<<2, 97, 0, 0>>, <<0, 1>>, ClassIN, 4, <<10, 0, 0, 1>>),
   WireRecord(NameRoot, TypePTR, ClassIN, 4, <<2, 97, 0, 0>>),
   WireRecord(NameRoot, TypePTR, ClassIN, 0, <<>>)}

\* i plain items, one item of `any`, j plain items, i + j < max, or nothing:
\* <<number of items, the items but the last, the last item>>
Bodies(any, plain, max) ==
  {<<0, <<>>, <<>>>>}
    \cup {<<t[1] + 1, Repeat(plain, t[1]), t[2]>> :
            t \in {u \in (0..max) \X any : u[1] < max}}
    \cup {<<t[1] + t[2] + 1, Repeat(plain, t[1]) \o t[3] \o Repeat(plain, t[2] - 1),
            plain>> :
            t \in {u \in (0..max) \X (1..max) \X any : u[1] + u[2] < max}}

\* the datagram head \o last, cut anywhere inside its last item
CutInLast(head, last) == {head \o SubSeq(last, 1, n) : n \in 0..Len(last)}

\* datagrams shorter than a header, and a bare header
ShortDatagrams == CutInLast(<<>>, HeaderBytes(0, 0, 0, 0, 0, 0))

\* datagrams whose body is questions only; the header declares as many
\* questions as the body holds, or one more
QuestionDatagrams ==
  UNION {CutInLast(HeaderBytes(0, 0, p[2], 0, 0, 0) \o p[1][2], p[1][3]) :
           p \in {u \in Bodies(WireQuestions, PlainQuestion, MaxQuestions)
                          \X (0..MaxQuestions + 1) :
                    u[2] \in {u[1][1], u[1][1] + 1}}}

\* the record counts <<an, ns, ar>> a header declares: at most one authority
\* and one additional record
RecordCounts(max) == (0..max) \X (0..1) \X (0..1)

\* datagrams with zero or one plain question and then records; the header
\* declares as many records as the body holds, or one more
RecordDatagrams ==
  UNION {CutInLast(HeaderBytes(132, 0, p[2], p[3][1], p[3][2], p[3][3])
                     \o Repeat(PlainQuestion, p[2]) \o p[1][2], p[1][3]) :
           p \in {u \in Bodies(WireRecords, PlainRecord, MaxRecords)
                          \X (0..1) \X RecordCounts(MaxRecords + 1) :
                    u[3][1] + u[3][2] + u[3][3] \in {u[1][1], u[1][1] + 1}}}

\* bytes 2 and 3 of a header: every flag alone, named and other opcodes and
\* response codes, every bit of Z
HeaderFlagBytes == {0, 1, 2, 4, 8, 16, 40, 120, 128, 132, 255}

HeaderCodeBytes == {0, 1, 2, 3, 4, 5, 6, 15, 16, 112, 128, 255}

HeaderCountBytes ==
  {<<0, 0, 0, 0, 0, 0, 0, 0>>, <<1, 2, 0, 0, 0, 0, 0, 0>>,
   <<0, 0, 3, 4, 0, 0, 0, 0>>, <<0, 0, 0, 0, 5, 6, 0, 0>>,
   <<0, 0, 0, 0, 0, 0, 255, 255>>}

\* datagrams that are a header and nothing else
HeaderDatagrams ==
  {id \o <<h[1], h[2]>> \o h[3] :
     id \in {<<0, 0>>, <<18, 52>>, <<255, 255>>},
     h \in HeaderFlagBytes \X HeaderCodeBytes \X HeaderCountBytes}

\* one question whose name is longer than 255 bytes, alone or after a
\* plain question
LongNameDatagrams ==
  {HeaderBytes(0, 0, n + 1, 0, 0, 0) \o Repeat(PlainQuestion, n)
     \o WireQuestion(NameOver255, TypePTR, ClassIN) : n \in 0..1}

\* the two questions of test::parse_queries: abc.de.fghi. and ab.cde.fghi.,
\* type A, class IN, 17 bytes each
TwoQuestionsData ==
  <<3, 97, 98, 99, 2, 100, 101, 4, 102, 103, 104, 105, 0, 0, 1, 0, 1>>
    \o <<2, 97, 98, 3, 99, 100, 101, 4, 102, 103, 104, 105, 0, 0, 1, 0, 1>>

\* the name of test::parse_query_with_value_and_pointer_values
NameAbcDeFPtr10 == <<3, 97, 98, 99, 2, 100, 101, 1, 102, 192, 10>>

\* the captured _spotify-connect._tcp.local. query
SpotifyConnectQuery ==
  <<0, 0, 0, 0, 0, 1, 0, 0, 0, 0, 0, 0,
    16, 95, 115, 112, 111, 116, 105, 102, 121, 45, 99, 111, 110, 110, 101, 99, 116,
    4, 95, 116, 99, 112, 5, 108, 111, 99, 97, 108, 0, 0, 12, 0, 1>>

\* datagrams taken from the tests and the captures of the repository
TestDatagrams ==
  {HeaderBytes(0, 0, 2, 0, 0, 0) \o TwoQuestionsData,
   HeaderBytes(0, 0, 2, 0, 0, 0)
     \o WireQuestion(NameAbcDeFPtr10, TypePTR, ClassIN) \o PlainQuestion,
   SpotifyConnectQuery}

Datagrams ==
  ShortDatagrams \cup HeaderDatagrams \cup QuestionDatagrams
    \cup LongNameDatagrams \cup TestDatagrams \cup RecordDatagrams

(***************************************************************************)
(* message.rs: parse as a state machine                                    *)
(***************************************************************************)
VARIABLES
  data,                \* the datagram
  pc,                  \* "header", "queries", "answers", "name_servers",
                       \* "additional_records" or "done"
  result,              \* "" while running, then "Ok", a ParseError or "panic"
  message,             \* why the parse failed
  header,
  label_store,
  queries, answers, name_servers, additional_records,
  previous_index,      \* parse_queries: index into the question slice
  current_offset,      \* the offset the next item is decoded at
  section_offset,      \* the offset the current section began at
  name_steps           \* the most loop iterations one name decoding took

vars ==
  <<data, pc, result, message, header, label_store, queries, answers,
    name_servers, additional_records, previous_index, current_offset,
    section_offset, name_steps>>

Init ==
  /\ data \in Datagrams
  /\ pc = "header"
  /\ result = ""
  /\ message = ""
  /\ header = NoHeader
  /\ label_store = <<>>
  /\ queries = <<>>
  /\ answers = <<>>
  /\ name_servers = <<>>
  /\ additional_records = <<>>
  /\ previous_index = 0
  /\ current_offset = 0
  /\ section_offset = 0
  /\ name_steps = 0

\* `?`: the error is what parse returns
\* (mutant) the error ends the decoding but not the parse: what was decoded
\* so far is returned as the message
Fail_Partial(r) ==
  /\ pc' = "done"
  /\ result' = "Ok"
  /\ message' = r.msg

Fail(r) ==
  /\ pc' = "done"
  /\ result' = r.err
  /\ message' = r.msg

\* (mutant) for _ in 0..=count: one iteration too many
LoopContinues_Inclusive(items, count) == Len(items) <= count

\* for _ in 0..count: the loop goes on while fewer than count items were pushed
LoopContinues(items, count) == Len(items) < count

\* let header = parse_header(data)?; let offset = 12;
HeaderStep(r) ==
  IF r.ok
  THEN /\ header' = r.val
       /\ pc' = "queries"
       /\ current_offset' = 12
       /\ section_offset' = 12
       /\ UNCHANGED <<result, message>>
  ELSE /\ Fail(r)
       /\ UNCHANGED <<header, current_offset, section_offset>>

ParseHeader ==
  /\ pc = "header"
  /\ HeaderStep(parse_header(data))
  /\ UNCHANGED <<data, label_store, queries, answers, name_servers,
                 additional_records, previous_index, name_steps>>

\* one iteration of the loop of parse_queries once parse_query returned r;
\* the labels of the question go to the label store
QueryStep(r) ==
  /\ name_steps' = Max(name_steps, r.steps)
  /\ IF r.ok
     THEN /\ queries' = Append(queries, r.val)
          /\ previous_index' = previous_index + QuerySize(r.val)
          /\ current_offset' = current_offset + QuerySize(r.val)
          /\ label_store' = label_store \o r.val.values
          /\ UNCHANGED <<pc, result, message>>
     ELSE /\ Fail(r)
          /\ UNCHANGED <<queries, previous_index, current_offset, label_store>>

\* parse_queries runs over &data[12..]
ParseQuery ==
  /\ pc = "queries"
  /\ LoopContinues(queries, header.question_count)
  /\ QueryStep(parse_query(current_offset,
                           SliceFrom(SliceFrom(data, 12), previous_index)))
  /\ UNCHANGED <<data, header, answers, name_servers, additional_records,
                 section_offset>>

\* let queries_length = queries.iter().fold(offset, |sum, q| sum + q.size());
EndQueries ==
  /\ pc = "queries"
  /\ ~LoopContinues(queries, header.question_count)
  /\ pc' = "answers"
  /\ section_offset' = section_offset + SumQuerySizes(queries)
  /\ current_offset' = section_offset'
  /\ UNCHANGED <<data, result, message, header, label_store, queries, answers,
                 name_servers, additional_records, previous_index, name_steps>>

\* one iteration of the loop of parse_resource_records once
\* parse_resource_record returned r: what it leaves in the section's list
RecordStepWith(records, records_next, r) ==
  /\ name_steps' = Max(name_steps, r.steps)
  /\ IF r.ok
     THEN /\ records_next = Append(records, r.val.record)
          /\ current_offset' = current_offset + RecordSize(r.val.record)
          /\ label_store' = r.val.label_store
          /\ UNCHANGED <<pc, result, message>>
     ELSE /\ Fail(r)
          /\ records_next = records
          /\ UNCHANGED <<current_offset, label_store>>

RecordStep(records, records_next) ==
  RecordStepWith(records, records_next,
                 parse_resource_record(label_store, current_offset, data))

\* the fold over the section just decoded: where the next section begins
\* (mutant) the fold starts at the end of the header, not at the start of the
\* section
SectionEnd_FromHeader(records) == 12 + SumRecordSizes(records)

SectionEnd(records) == section_offset + SumRecordSizes(records)

ParseAnswer ==
  /\ pc = "answers"
  /\ LoopContinues(answers, header.answer_count)
  /\ RecordStep(answers, answers')
  /\ UNCHANGED <<data, header, queries, name_servers, additional_records,
                 previous_index, section_offset>>

EndAnswers ==
  /\ pc = "answers"
  /\ ~LoopContinues(answers, header.answer_count)
  /\ pc' = "name_servers"
  /\ section_offset' = SectionEnd(answers)
  /\ current_offset' = section_offset'
  /\ UNCHANGED <<data, result, message, header, label_store, queries, answers,
                 name_servers, additional_records, previous_index, name_steps>>

ParseNameServer ==
  /\ pc = "name_servers"
  /\ LoopContinues(name_servers, header.name_server_count)
  /\ RecordStep(name_servers, name_servers')
  /\ UNCHANGED <<data, header, queries, answers, additional_records,
                 previous_index, section_offset>>

EndNameServers ==
  /\ pc = "name_servers"
  /\ ~LoopContinues(name_servers, header.name_server_count)
  /\ pc' = "additional_records"
  /\ section_offset' = SectionEnd(name_servers)
  /\ current_offset' = section_offset'
  /\ UNCHANGED <<data, result, message, header, label_store, queries, answers,
                 name_servers, additional_records, previous_index, name_steps>>

ParseAdditional ==
  /\ pc = "additional_records"
  /\ LoopContinues(additional_records, header.additional_count)
  /\ RecordStep(additional_records, additional_records')
  /\ UNCHANGED <<data, header, queries, answers, name_servers,
                 previous_index, section_offset>>

\* Ok(Message { header, queries, answers, name_servers, additional_records })
Finish ==
  /\ pc = "additional_records"
  /\ ~LoopContinues(additional_records, header.additional_count)
  /\ pc' = "done"
  /\ result' = "Ok"
  /\ UNCHANGED <<data, message, header, label_store, queries, answers,
                 name_servers, additional_records, previous_index,
                 current_offset, section_offset, name_steps>>

Next ==
  \/ ParseHeader
  \/ ParseQuery
  \/ EndQueries
  \/ ParseAnswer
  \/ EndAnswers
  \/ ParseNameServer
  \/ EndNameServers
  \/ ParseAdditional
  \/ Finish

Spec == Init /\ [][Next]_vars

(***************************************************************************)
(* message.rs: parse as a function of the datagram                         *)
(***************************************************************************)
RECURSIVE parse_queries_loop(_, _, _, _, _, _)
\* the rest of an iteration of parse_queries, once parse_query returned r
parse_queries_next(count, d, queries_, store, previous_index_, current_offset_, r) ==
  IF ~r.ok THEN r
  ELSE parse_queries_loop(count, d, Append(queries_, r.val),
                          store \o r.val.values,
                          previous_index_ + QuerySize(r.val),
                          current_offset_ + QuerySize(r.val))

parse_queries_loop(count, d, queries_, store, previous_index_, current_offset_) ==
  IF ~LoopContinues(queries_, count)
  THEN Ok([queries |-> queries_, label_store |-> store])
  ELSE parse_queries_next(count, d, queries_, store, previous_index_,
                          current_offset_,
                          parse_query(current_offset_,
                                      SliceFrom(d, previous_index_)))

\* parse_queries over &data[12..]; the labels of the questions go to the
\* label store
parse_queries(start_offset, header_, d) ==
  parse_queries_loop(header_.question_count, d, <<>>, <<>>, 0, start_offset)

RECURSIVE parse_resource_records_loop(_, _, _, _, _)
\* the rest of an iteration, once parse_resource_record returned r
parse_resource_records_next(current_offset_, count, d, records, r) ==
  IF ~r.ok THEN r
  ELSE parse_resource_records_loop(r.val.label_store,
                                   current_offset_ + RecordSize(r.val.record),
                                   count, d, Append(records, r.val.record))

parse_resource_records_loop(store, current_offset_, count, d, records) ==
  IF ~LoopContinues(records, count)
  THEN Ok([records |-> records, label_store |-> store])
  ELSE parse_resource_records_next(current_offset_, count, d, records,
                                   parse_resource_record(store, current_offset_, d))

parse_resource_records(store, start_offset, count, d) ==
  parse_resource_records_loop(store, start_offset, count, d, <<>>)

\* Ok(Message { .. }), or the error of the additional section
parse_additional_done(header_, queries_, answers_, name_servers_, ar) ==
  IF ~ar.ok THEN ar
  ELSE Ok([header |-> header_, queries |-> queries_, answers |-> answers_,
           name_servers |-> name_servers_,
           additional_records |-> ar.val.records])

parse_name_servers_done(d, header_, queries_, answers_, answers_length, ns) ==
  IF ~ns.ok THEN ns
  ELSE parse_additional_done(
         header_, queries_, answers_, ns.val.records,
         parse_resource_records(ns.val.label_store,
                                answers_length + SumRecordSizes(ns.val.records),
                                header_.additional_count, d))

parse_answers_done(d, header_, queries_, queries_length, an) ==
  IF ~an.ok THEN an
  ELSE parse_name_servers_done(
         d, header_, queries_, an.val.records,
         queries_length + SumRecordSizes(an.val.records),
         parse_resource_records(an.val.label_store,
                                queries_length + SumRecordSizes(an.val.records),
                                header_.name_server_count, d))

parse_queries_done(d, header_, q) ==
  IF ~q.ok THEN q
  ELSE parse_answers_done(
         d, header_, q.val.queries, 12 + SumQuerySizes(q.val.queries),
         parse_resource_records(q.val.label_store,
                                12 + SumQuerySizes(q.val.queries),
                                header_.answer_count, d))

parse_header_done(d, h) ==
  IF ~h.ok THEN h
  ELSE parse_queries_done(d, h.val,
                          parse_queries(12, h.val, SliceFrom(d, 12)))

\* message::parse
parse(d) == parse_header_done(d, parse_header(d))

(***************************************************************************)
(* What is checked                                                         *)
(***************************************************************************)
Done == pc = "done"

Accepted == result = "Ok"

AllRecords == answers \o name_servers \o additional_records

\* the labels of every name of the message: of the questions, of the records
\* and of the PTR RDATA (the label store holds them all)
ParsedLabels == {label_store[i] : i \in 1..Len(label_store)}

NothingDecoded ==
  /\ header = NoHeader
  /\ queries = <<>>
  /\ AllRecords = <<>>
  /\ label_store = <<>>

\* C1: message::parse returns Ok or Err for every datagram; it never panics,
\* also when the fixed fields or the RDATA of a record run past the end.
C1_NeverPanics == result # "panic"

\* C2: a datagram shorter than 12 bytes fails with HeaderError and nothing
\* else is decoded; with 12 bytes or more the header step succeeds.
C2_ShortHeader ==
  pc # "header" =>
    IF Len(data) < 12
    THEN Done /\ result = "HeaderError" /\ NothingDecoded
    ELSE result # "HeaderError"

C2_Witness == Done /\ Len(data) < 12 /\ result = "HeaderError"

\* C3: no datagram with a parsed name that holds a compression pointer to
\* its own offset or to a later one yields a message.
C3_NoSelfOrForwardPointer ==
  Accepted => \A l \in ParsedLabels : IsPointer(l) => l.pointer < l.offset

\* The wire read without the parser: does the name that starts at p reach a
\* label-start byte with top bits 01 or 10 by stepping over length-prefixed
\* labels?
RECURSIVE ReservedOnWire(_, _)
ReservedOnWire(d, p) ==
  IF p >= Len(d) THEN FALSE
  ELSE IF At(d, p) \in 64..191 THEN TRUE
  ELSE IF At(d, p) = 0 \/ At(d, p) >= 192 THEN FALSE
  ELSE ReservedOnWire(d, p + At(d, p) + 1)

\* where the name that starts at p ends on the wire (one past its root label
\* or its pointer), or Len(d) + 1 if it does not end inside d
RECURSIVE WireNameEnd(_, _)
WireNameEnd(d, p) ==
  IF p >= Len(d) \/ At(d, p) \in 64..191 THEN Len(d) + 1
  ELSE IF At(d, p) = 0 THEN p + 1
  ELSE IF At(d, p) >= 192 THEN (IF p + 1 < Len(d) THEN p + 2 ELSE Len(d) + 1)
  ELSE WireNameEnd(d, p + At(d, p) + 1)

DecodesItem == ParseQuery \/ ParseAnswer \/ ParseNameServer \/ ParseAdditional

DecodesRecord == ParseAnswer \/ ParseNameServer \/ ParseAdditional

\* the record at p is a PTR record whose fixed fields lie inside d and whose
\* RDLENGTH passes the length test, so that the name of its RDATA is decoded
PtrRecordOnWire(d, p) ==
  /\ WireNameEnd(d, p) + 10 < Len(d)
  /\ At(d, WireNameEnd(d, p)) = 0
  /\ At(d, WireNameEnd(d, p) + 1) = 12
  /\ U16(At(d, WireNameEnd(d, p) + 8), At(d, WireNameEnd(d, p) + 9)) <= Len(d)

LabelMatchesWire(l) ==
  /\ Len(l.value) <= 63
  /\ At(data, l.offset) = Len(l.value)
  /\ l.value = Slice(data, l.offset + 1, l.offset + 1 + Len(l.value))

\* C4: a label-start byte with top bits 01 or 10 (64..191) that name decoding
\* reads, in the name of a question or a record or in the name of a PTR RDATA,
\* ends the parse with a label error; a literal label is never longer than 63
\* bytes: its length byte is 0 (the terminator) or 1..63, the count of the
\* bytes that follow.
C4_ReservedLabelBits ==
  /\ [][(DecodesItem /\ ReservedOnWire(data, current_offset))
          => result' = "QueryLabelError"]_vars
  /\ [][(DecodesRecord /\ PtrRecordOnWire(data, current_offset)
           /\ ReservedOnWire(data, WireNameEnd(data, current_offset) + 10))
          => result' = "QueryLabelError"]_vars
  /\ [](\A l \in ParsedLabels : ~IsPointer(l) => LabelMatchesWire(l))

C4_Witness ==
  /\ result = "QueryLabelError"
  /\ message = "Unknown label type"
  /\ ReservedOnWire(data, current_offset)

C4_WitnessLongest ==
  Accepted /\ \E l \in ParsedLabels : ~IsPointer(l) /\ Len(l.value) = 63

\* where an item starts on the wire, and where its CLASS field does
ItemStart(item) == item.values[1].offset

ClassFieldAt(item) == ItemStart(item) + SumSizes(item.values) + 2

\* the class that the low 15 bits of the CLASS field hi, lo name
ClassOfLow15(hi, lo) ==
  CASE U16(hi % 128, lo) = 1 -> "IN"
    [] U16(hi % 128, lo) = 2 -> "CS"
    [] U16(hi % 128, lo) = 3 -> "CH"
    [] U16(hi % 128, lo) = 4 -> "HS"
    [] OTHER -> "Invalid"

QClassOfLow15(hi, lo) ==
  IF U16(hi % 128, lo) = 255 THEN [q |-> "Any", class |-> ""]
  ELSE [q |-> "Class", class |-> ClassOfLow15(hi, lo)]

\* C5: the unicast-response (QU) bit of a question is the high bit of its
\* CLASS field, and the class is decoded from the low 15 bits of that field:
\* 80 01 is IN with QU, 80 FF is ANY with QU.
C5_QuIsHighBitOfClass ==
  \A i \in 1..Len(queries) :
    /\ (queries[i].q_response_type = "QU")
         <=> (At(data, ClassFieldAt(queries[i])) >= 128)
    /\ queries[i].q_class =
         QClassOfLow15(At(data, ClassFieldAt(queries[i])),
                       At(data, ClassFieldAt(queries[i]) + 1))

\* C6: the high bit of the CLASS field of a record is the cache-flush bit and
\* is kept apart from the class, which is decoded from the low 15 bits:
\* 80 01 is IN.
C6_RecordClassLow15 ==
  \A i \in 1..Len(AllRecords) :
    AllRecords[i].class =
      ClassOfLow15(At(data, ClassFieldAt(AllRecords[i])),
                   At(data, ClassFieldAt(AllRecords[i]) + 1))

\* C7: for an accepted datagram the on-wire sizes of the questions and the
\* records, plus the 12 bytes of the header, add up to the bytes consumed up
\* to the end of the last section, and that offset is not past the end of the
\* datagram.
C7_SizesAddUp ==
  Accepted =>
    /\ current_offset = 12 + SumQuerySizes(queries) + SumRecordSizes(AllRecords)
    /\ current_offset <= Len(data)

\* C8: a count or an RDLENGTH that the datagram ends too early to satisfy
\* yields an error, never a message: every record of a message, its RDATA
\* included, lies inside the datagram.
C8_NoMessageFromTruncated ==
  Accepted =>
    \A i \in 1..Len(AllRecords) :
      ItemStart(AllRecords[i]) + RecordSize(AllRecords[i]) <= Len(data)

WireCount(hi) == U16(At(data, hi), At(data, hi + 1))

\* C9: in a message the four sections are exactly as long as QDCOUNT,
\* ANCOUNT, NSCOUNT and ARCOUNT of the header say; a bare header whose counts
\* are zero is a message with four empty sections.
C9_SectionLengthsAreCounts ==
  /\ Accepted =>
       /\ Len(queries) = WireCount(4) /\ Len(queries) = header.question_count
       /\ Len(answers) = WireCount(6) /\ Len(answers) = header.answer_count
       /\ Len(name_servers) = WireCount(8)
       /\ Len(name_servers) = header.name_server_count
       /\ Len(additional_records) = WireCount(10)
       /\ Len(additional_records) = header.additional_count
  /\ (Done /\ Len(data) = 12 /\ \A i \in 4..11 : At(data, i) = 0) =>
       (Accepted /\ queries = <<>> /\ AllRecords = <<>>)

C9_Witness ==
  /\ Accepted
  /\ Len(queries) = 1
  /\ Len(answers) = 1
  /\ Len(additional_records) = 1

C9_WitnessBareHeader == Accepted /\ Len(data) = 12

\* C10: decoding a name ends on every datagram, pointers to themselves
\* included: no decoding is cut off as diverging, and no name takes more
\* steps than the datagram has bytes.
C10_NameDecodingTerminates ==
  name_steps <= Len(data) /\ result # "diverged"

C10_Witness ==
  /\ Done
  /\ name_steps >= 2
  /\ \E l \in ParsedLabels : IsPointer(l) /\ l.pointer = l.offset

\* The offset at which the name that holds label_store[i] starts: the label
\* store keeps the labels of the names in the order they were decoded, each
\* name ending in a root or a pointer label.
RECURSIVE NameStartOffset(_)
NameStartOffset(i) ==
  IF i = 1 \/ EndsName(label_store[i - 1]) THEN label_store[i].offset
  ELSE NameStartOffset(i - 1)

\* every pointer decoded points to the start of a literal label of a name
\* decoded before the name that holds the pointer
PointersLeadBack ==
  \A i \in 1..Len(label_store) :
    IsPointer(label_store[i]) =>
      /\ label_store[i].pointer < NameStartOffset(i)
      /\ \E j \in 1..(i - 1) :
           /\ ~IsPointer(label_store[j])
           /\ label_store[j].offset = label_store[i].pointer

\* literal labels only, one root, and the root last
ResolvedNameIsWhole(name) ==
  /\ name # <<>>
  /\ \A k \in 1..Len(name) : ~IsPointer(name[k])
  /\ \A k \in 1..Len(name) : IsRoot(name[k]) <=> k = Len(name)

\* C11: the resolved name of a name that ends in a pointer P to an earlier
\* name is its own literal labels and then the labels of the name at P, on
\* through the pointer that name may end in: the resolved name of every
\* record, and of every PTR RDATA, is literal labels ending in one root,
\* without a pointer label and without labels of a later name.
C11_ResolvedNamesAreWhole ==
  (Accepted /\ PointersLeadBack) =>
    \A i \in 1..Len(AllRecords) :
      /\ ResolvedNameIsWhole(AllRecords[i].name)
      /\ AllRecords[i].resource_record_data.tag = "PTR" =>
           ResolvedNameIsWhole(AllRecords[i].resource_record_data.name)

\* C12: in a message the target of every compression pointer is the offset
\* at which a label of a parsed name starts; a pointer into the middle of a
\* label, or to an offset that no parsed name covers, yields no message.
C12_PointerTargetsAreLabelStarts ==
  Accepted =>
    \A l \in ParsedLabels :
      IsPointer(l) => \E t \in ParsedLabels : t.offset = l.pointer

\* The wire read without the parser: the name that starts at p is made of
\* literal labels of 1..63 bytes, none of them holding a zero byte, and ends
\* in a root label inside d.
RECURSIVE LiteralNameOnWire(_, _)
LiteralNameOnWire(d, p) ==
  IF p >= Len(d) THEN FALSE
  ELSE IF At(d, p) = 0 THEN TRUE
  ELSE IF At(d, p) > 63 \/ p + At(d, p) >= Len(d) THEN FALSE
  ELSE IF \E k \in 1..At(d, p) : At(d, p + k) = 0 THEN FALSE
  ELSE LiteralNameOnWire(d, p + At(d, p) + 1)

\* a question made of such a name and the four bytes of QTYPE and QCLASS
LiteralQuestionOnWire(d, p) ==
  LiteralNameOnWire(d, p) /\ WireNameEnd(d, p) + 4 <= Len(d)

LastOf(items) == items[Len(items)]

\* C13: labels are byte strings: a question whose name is made of literal
\* labels of 1..63 bytes is decoded whether or not the bytes of a label are
\* valid UTF-8 (a label of the single byte FF, say), and the labels keep
\* their bytes.
C13_NonUtf8LabelsAccepted ==
  [][(ParseQuery /\ LiteralQuestionOnWire(data, current_offset))
       => /\ result' = result
          /\ Len(queries') = Len(queries) + 1
          /\ \A l \in {LastOf(queries').values[k] :
                         k \in 1..Len(LastOf(queries').values)} :
               LabelMatchesWire(l)']_vars

\* the length of a name: the bytes of its literal labels, one more for each
\* of them, and the root byte
RECURSIVE NameLength(_)
NameLength(labels) ==
  IF labels = <<>> THEN 0
  ELSE (IF IsPointer(Head(labels)) THEN 0 ELSE Len(Head(labels).value) + 1)
         + NameLength(Tail(labels))

\* C14: a name whose resolved length (label lengths, one more per label, and
\* the root byte) is above 255 yields no message: in a message the name of
\* every question and of every record is at most 255 bytes long.
C14_NamesAtMost255 ==
  Accepted =>
    /\ \A i \in 1..Len(queries) :
         NameLength(resolve_name(label_store, queries[i].values)) <= 255
    /\ \A i \in 1..Len(AllRecords) : NameLength(AllRecords[i].name) <= 255

\* where the RDATA of a record starts on the wire
RDataStart(record) == ItemStart(record) + SumSizes(record.values) + 10

RecordsOfType(tag) ==
  {i \in 1..Len(AllRecords) : AllRecords[i].resource_record_type.tag = tag}

\* C15: the name in the RDATA of a PTR record takes exactly RDLENGTH bytes on
\* the wire; a PTR record whose RDATA name is shorter or longer than its
\* RDLENGTH yields no message.
C15_PtrNameFillsRdlength ==
  Accepted =>
    \A i \in RecordsOfType("PTR") :
      WireNameEnd(data, RDataStart(AllRecords[i])) - RDataStart(AllRecords[i])
        = AllRecords[i].resource_record_data_length

\* C16: the RDLENGTH of an A record is 4 and its four RDATA bytes are the
\* address; an A record with another RDLENGTH yields no message.
C16_ARecordRdlengthIs4 ==
  Accepted =>
    \A i \in RecordsOfType("A") :
      /\ AllRecords[i].resource_record_data_length = 4
      /\ AllRecords[i].resource_record_data.bytes
           = Slice(data, RDataStart(AllRecords[i]), RDataStart(AllRecords[i]) + 4)

\* The wire read without the parser: the character-strings <length, bytes>
\* of d[p .. end), or <<"untiled">> if their lengths do not add up to end.
RECURSIVE TxtStrings(_, _, _)
TxtStrings(d, p, end) ==
  IF p = end THEN <<>>
  ELSE IF p + 1 + At(d, p) > end \/ end > Len(d) THEN <<"untiled">>
  ELSE <<Slice(d, p + 1, p + 1 + At(d, p))>> \o TxtStrings(d, p + 1 + At(d, p), end)

TxtEnd(record) == RDataStart(record) + record.resource_record_data_length

TxtTiles(record) ==
  \A k \in 1..Len(TxtStrings(data, RDataStart(record), TxtEnd(record))) :
    TxtStrings(data, RDataStart(record), TxtEnd(record))[k] # "untiled"

\* C17: the RDATA of a TXT record is a sequence of character-strings, each a
\* length byte and that many bytes, that fill RDLENGTH exactly; each string
\* is recovered on its own, RDATA that the length bytes do not tile yields no
\* message, and RDLENGTH = 0 is accepted as no strings.
C17_TxtCharacterStrings ==
  Accepted =>
    \A i \in RecordsOfType("TXT") :
      /\ TxtTiles(AllRecords[i])
      /\ AllRecords[i].resource_record_data.bytes
           = TxtStrings(data, RDataStart(AllRecords[i]), TxtEnd(AllRecords[i]))

ParseErrors ==
  {"HeaderError", "QueryLabelError", "QueryError", "ResourceRecordError"}

\* a step that began the decoding r of an item: if r is a parse error, the
\* parse ends with that error
FatalStep(r) ==
  (~r.ok /\ r.err \in ParseErrors) => (pc' = "done" /\ result' = r.err)

\* C18: a parse error is fatal for the whole datagram: when the decoding of a
\* question or of a record of any section fails, parse ends with that error
\* and returns no message, however many questions and records were decoded
\* before it.
C18_ErrorsAreFatal ==
  /\ [][ParseQuery =>
          FatalStep(parse_query(current_offset,
                                SliceFrom(SliceFrom(data, 12), previous_index)))]_vars
  /\ [][DecodesRecord =>
          FatalStep(parse_resource_record(label_store, current_offset, data))]_vars
  /\ [](result \in ParseErrors => Done)

C18_Witness ==
  /\ Done
  /\ result \in ParseErrors
  /\ Len(queries) >= 1
  /\ Len(AllRecords) >= 1

\* bits hi..lo of the byte b, bit 7 the highest
BitsOf(b, hi, lo) == (b \div 2^lo) % 2^(hi - lo + 1)

OpcodeName(n) ==
  CASE n = 0 -> "Query" [] n = 1 -> "InverseQuery" [] n = 2 -> "Status"
    [] OTHER -> "Other"

RcodeName(n) ==
  CASE n = 0 -> "NoError" [] n = 1 -> "FormatError" [] n = 2 -> "ServerFailure"
    [] n = 3 -> "NameError" [] n = 4 -> "NotImplemented" [] n = 5 -> "Refused"
    [] OTHER -> "Other"

\* the header that the layout of RFC 1035 reads in the first 12 bytes of d
HeaderByLayout(d) ==
  [id |-> At(d, 0) * 256 + At(d, 1),
   query_or_response |-> IF BitsOf(At(d, 2), 7, 7) = 1 THEN "Response" ELSE "Query",
   operation_code |-> OpcodeName(BitsOf(At(d, 2), 6, 3)),
   operation_code_value |-> BitsOf(At(d, 2), 6, 3),
   authoritative_answer |->
     IF BitsOf(At(d, 2), 2, 2) = 1 THEN "Authoritative" ELSE "NotAuthoritative",
   truncation |-> IF BitsOf(At(d, 2), 1, 1) = 1 THEN "Truncated" ELSE "NotTruncated",
   recursion_desired |->
     IF BitsOf(At(d, 2), 0, 0) = 1 THEN "RecursionDesired" ELSE "RecursionNotDesired",
   recursion_available |->
     IF BitsOf(At(d, 3), 7, 7) = 1
     THEN "RecursionAvailable" ELSE "RecursionNotAvailable",
   z |-> BitsOf(At(d, 3), 6, 4),
   response_code |-> RcodeName(BitsOf(At(d, 3), 3, 0)),
   response_code_value |-> BitsOf(At(d, 3), 3, 0),
   question_count |-> At(d, 4) * 256 + At(d, 5),
   answer_count |-> At(d, 6) * 256 + At(d, 7),
   name_server_count |-> At(d, 8) * 256 + At(d, 9),
   additional_count |-> At(d, 10) * 256 + At(d, 11)]

\* C20: parse_header reads the first 12 bytes by the layout of RFC 1035 and
\* nothing else: id and the four counts are the big-endian values of bytes
\* 0-1 and 4-11; in byte 2 QR is bit 7, the opcode bits 6..3, AA bit 2, TC
\* bit 1, RD bit 0; in byte 3 RA is bit 7, Z bits 6..4, RCODE bits 3..0;
\* opcodes 0, 1, 2 and RCODEs 0..5 have their names, every other value is
\* Other and its number is kept.
C20_HeaderLayout ==
  (pc # "header" /\ Len(data) >= 12) => header = HeaderByLayout(data)

C20_Witness ==
  /\ pc # "header"
  /\ header.id = 4660
  /\ header.operation_code = "Other" /\ header.operation_code_value = 15
  /\ header.z = 7
  /\ header.response_code = "Other" /\ header.response_code_value = 15
  /\ header.additional_count = 65535

\* bytes that follow the last section of a datagram
TrailingBytes ==
  {<<>>, <<0>>, <<255>>, <<192, 12>>, <<1, 97, 0>>, PlainQuestion, PlainRecord}

\* the message that the parse of the state's datagram has built
MessageBuilt ==
  [header |-> header, queries |-> queries, answers |-> answers,
   name_servers |-> name_servers, additional_records |-> additional_records]

\* C19: the end of the datagram is not required after the last section: a
\* datagram that parses to a message, with any bytes put after it, parses
\* to the same message.
C19_TrailingBytesIgnored ==
  Accepted =>
    \A t \in TrailingBytes :
      parse(data \o t).ok /\ parse(data \o t).val = MessageBuilt

C19_Witness ==
  /\ Accepted
  /\ Len(queries) >= 1
  /\ RecordsOfType("Other") # {}
  /\ parse(data \o PlainRecord).ok

\* where the question being decoded starts in the datagram: parse_queries
\* runs over the bytes after the header and passes &data[previous_index..]
QuestionReadAt == 12 + previous_index

\* the question that ParseQuery has just pushed
QueryPushed == ParseQuery /\ Len(queries') = Len(queries) + 1

\* C21: for every question decoded, Query::size() is the on-wire size of its
\* name (1 for the root label, length + 1 for a literal label, 2 for a
\* pointer: the bytes from the name's start to one past its root or pointer)
\* plus 4; the next question is read exactly that many bytes after the
\* question's start, and the answer section begins that many bytes after the
\* start of the last question.
C21_QuerySizeIsWireSize ==
  /\ [][QueryPushed =>
          /\ QuerySize(LastOf(queries'))
               = WireNameEnd(data, QuestionReadAt) - QuestionReadAt + 4
          /\ QuestionReadAt' = QuestionReadAt + QuerySize(LastOf(queries'))
          /\ current_offset' = current_offset + QuerySize(LastOf(queries'))]_vars
  /\ [][EndQueries =>
          /\ section_offset' = QuestionReadAt
          /\ current_offset' = QuestionReadAt]_vars

C21_Witness ==
  /\ pc = "answers"
  /\ Len(queries) = 2
  /\ QuerySize(queries[1]) = 7
  /\ IsPointer(LastOf(queries[2].values))
  /\ QuerySize(queries[2]) = 8
  /\ section_offset = 27

\* the label is on the wire at the offset it records: its length byte and its
\* bytes, or the two bytes of a pointer to its target
LabelIsAtItsOffset(l) ==
  IF IsPointer(l)
  THEN /\ l.offset + 1 < Len(data)
       /\ At(data, l.offset) >= 192
       /\ l.pointer = U16(At(data, l.offset) - 192, At(data, l.offset + 1))
  ELSE LabelMatchesWire(l)

\* each later label of a name records the offset of the label before it plus
\* that label's length byte and bytes
OffsetsFollow(values) ==
  \A i \in 1..(Len(values) - 1) :
    values[i + 1].offset = values[i].offset + 1 + Len(values[i].value)

\* C22: every label of a question records the absolute offset in the datagram
\* it was read from: the first label of the first question has the start
\* offset 12, each later label of a name has the offset of the label before it
\* plus that label's on-wire size, and the first label of question k + 1 has
\* the start offset of question k plus the size of question k (two 17-byte
\* questions give first labels at 12 and 29).
C22_LabelsRecordTheirOffsets ==
  \A k \in 1..Len(queries) :
    /\ ItemStart(queries[k])
         = IF k = 1 THEN 12
           ELSE WireNameEnd(data, ItemStart(queries[k - 1])) + 4
    /\ k > 1 => ItemStart(queries[k])
                  = ItemStart(queries[k - 1]) + QuerySize(queries[k - 1])
    /\ OffsetsFollow(queries[k].values)
    /\ \A i \in 1..Len(queries[k].values) :
         LabelIsAtItsOffset(queries[k].values[i])

C22_Witness ==
  /\ Accepted
  /\ Len(queries) = 2
  /\ QuerySize(queries[1]) = 17
  /\ [i \in 1..4 |-> queries[1].values[i].offset] = <<12, 16, 19, 24>>
  /\ [i \in 1..4 |-> queries[2].values[i].offset] = <<29, 32, 36, 41>>

C22_WitnessPointer ==
  /\ Accepted
  /\ Len(queries) = 2
  /\ Len(queries[1].values) = 4
  /\ queries[1].values[4] = LabelPointer(21, 10)
  /\ ItemStart(queries[2]) = 27

\* the TYPE values that parse_resource_record_data has a decoder for, and the
\* ones ResourceRecordType has a name for
DecodedTypes == {1, 12, 16, 28, 33}

NamedTypes == {1, 2, 5, 6, 12, 15, 16, 28, 33, 41, 47}

\* the record at p has an owner name that decodes, a TYPE without a decoder of
\* its own, and its fixed fields and its RDLENGTH bytes of RDATA lie inside d
UndecodedRecordOnWire(d, p) ==
  /\ parse_name_at(p, d).ok
  /\ WireNameEnd(d, p) + 10 <= Len(d)
  /\ U16(At(d, WireNameEnd(d, p)), At(d, WireNameEnd(d, p) + 1)) \notin DecodedTypes
  /\ WireNameEnd(d, p) + 10
       + U16(At(d, WireNameEnd(d, p) + 8), At(d, WireNameEnd(d, p) + 9)) <= Len(d)

\* the record keeps the number of its TYPE, as Other(n) when the type has no
\* name, and its RDATA is the RDLENGTH bytes after the RDLENGTH field at q
KeepsTypeAndBytes(record, d, q) ==
  /\ record.resource_record_type.n = U16(At(d, q - 10), At(d, q - 9))
  /\ record.resource_record_type.n \notin NamedTypes
       => record.resource_record_type.tag = "Other"
  /\ record.resource_record_data_length = U16(At(d, q - 2), At(d, q - 1))
  /\ record.resource_record_data
       = RData("Other", Slice(d, q, q + U16(At(d, q - 2), At(d, q - 1))), <<>>)

\* C23: a resource record whose TYPE has no decoder of its own still parses:
\* the step that decodes it does not fail, the record's type keeps the number
\* n of the TYPE field (Other(n)), and its RDATA is exactly the RDLENGTH bytes
\* that follow the RDLENGTH field, in order.
C23_UnknownTypesKeptVerbatim ==
  [][(DecodesRecord /\ UndecodedRecordOnWire(data, current_offset)) =>
       /\ result' = result
       /\ Len(AllRecords') = Len(AllRecords) + 1
       /\ KeepsTypeAndBytes(LastOf(AllRecords'), data,
                            WireNameEnd(data, current_offset) + 10)]_vars

C23_Witness ==
  /\ Accepted
  /\ \E i \in 1..Len(AllRecords) :
       /\ AllRecords[i].resource_record_type = RRType("Other", 257)
       /\ AllRecords[i].resource_record_data = RData("Other", <<7, 8>>, <<>>)

C23_WitnessNamedType ==
  /\ Accepted
  /\ \E i \in 1..Len(AllRecords) :
       /\ AllRecords[i].resource_record_type.tag = "OPT"
       /\ AllRecords[i].resource_record_data = RData("Other", <<0, 4, 0>>, <<>>)

\* the two decodings end alike: both succeed with the same labels (kind,
\* recorded offset, bytes, pointer target), or both return an error, or both
\* panic
SameNames(a, b) ==
  /\ a.ok <=> b.ok
  /\ a.ok => a.val = b.val
  /\ a.err = "panic" <=> b.err = "panic"

\* the bytes after the header, which parse_queries hands to the name decoder
QuestionBytes == SliceFrom(data, 12)

\* C24: parse_name_v2 and parse_name behave the same on every input: given the
\* same start offset (0 or 12 here) and the same bytes (the bytes after the
\* header of each datagram), either both fail or both succeed with the same
\* labels, and neither panics where the other returns.
C24_V2DecodesLikeParseName ==
  Len(data) > 12 =>
    \A start \in {0, 12} :
      SameNames(parse_name(start, QuestionBytes),
                parse_name_v2(start, QuestionBytes))

\* The wire read without the parser: does the name that starts at p hold a
\* literal label, all inside d, with a zero byte after its length byte?
RECURSIVE ZeroInLabelOnWire(_, _)
ZeroInLabelOnWire(d, p) ==
  IF p >= Len(d) \/ At(d, p) = 0 \/ At(d, p) >= 64 \/ p + At(d, p) >= Len(d)
  THEN FALSE
  ELSE IF \E i \in (p + 1)..(p + At(d, p)) : At(d, i) = 0 THEN TRUE
  ELSE ZeroInLabelOnWire(d, p + At(d, p) + 1)

\* the labels of every name of the message so far: the raw labels of the
\* questions and the records, and the resolved names of the records and of
\* PTR RDATA
NameLabels ==
  ParsedLabels
    \cup UNION {{queries[k].values[i] : i \in 1..Len(queries[k].values)} :
                  k \in 1..Len(queries)}
    \cup UNION {{AllRecords[k].values[i] : i \in 1..Len(AllRecords[k].values)}
                  \cup {AllRecords[k].name[i] : i \in 1..Len(AllRecords[k].name)}
                  \cup {AllRecords[k].resource_record_data.name[i] :
                          i \in 1..Len(AllRecords[k].resource_record_data.name)} :
                  k \in 1..Len(AllRecords)}

\* C25: no name of a message holds a zero byte inside a label: decoding a
\* name fails with a label error whenever the body of one of its literal
\* labels (the bytes after the length byte) holds a zero byte, in a question,
\* in the owner name of a record and in the name of PTR RDATA, so a zero byte
\* is in a name only as its root label.
C25_NoZeroByteInsideLabels ==
  /\ [][(DecodesItem /\ ZeroInLabelOnWire(data, current_offset))
          => result' = "QueryLabelError"]_vars
  /\ [][(DecodesRecord /\ PtrRecordOnWire(data, current_offset)
           /\ ZeroInLabelOnWire(data, WireNameEnd(data, current_offset) + 10))
          => result' = "QueryLabelError"]_vars
  /\ [](\A l \in NameLabels : \A i \in 1..Len(l.value) : l.value[i] # 0)

C25_Witness ==
  /\ result = "QueryLabelError"
  /\ message = "Zero encountered before end of label"
  /\ pc = "done"
  /\ Len(queries) = 1
  /\ ZeroInLabelOnWire(data, current_offset)

C25_WitnessRecord ==
  /\ result = "QueryLabelError"
  /\ message = "Zero encountered before end of label"
  /\ Len(answers) = 1
  /\ PtrRecordOnWire(data, current_offset)
  /\ ZeroInLabelOnWire(data, WireNameEnd(data, current_offset) + 10)

\* the labels "_spotify-connect", "_tcp", "local" and the root, as bytes
SpotifyConnectName ==
  <<<<95, 115, 112, 111, 116, 105, 102, 121, 45, 99, 111, 110, 110, 101, 99, 116>>,
    <<95, 116, 99, 112>>, <<108, 111, 99, 97, 108>>, <<>>>>

\* C26: the captured 45-byte Spotify-Connect query parses to a message with
\* id 0, QR = query, exactly one question with the name
\* _spotify-connect._tcp.local., QTYPE PTR, QCLASS IN and QU false (QM), and
\* empty answer, authority and additional sections.
C26_SpotifyConnectQuery ==
  (data = SpotifyConnectQuery /\ Done) =>
    /\ Accepted
    /\ header.id = 0
    /\ header.query_or_response = "Query"
    /\ Len(queries) = 1
    /\ [i \in 1..Len(queries[1].values) |-> queries[1].values[i].value]
         = SpotifyConnectName
    /\ \A i \in 1..Len(queries[1].values) : ~IsPointer(queries[1].values[i])
    /\ queries[1].q_type = [q |-> "Type", type |-> "PTR"]
    /\ queries[1].q_class = [q |-> "Class", class |-> "IN"]
    /\ queries[1].q_response_type = "QM"
    /\ answers = <<>> /\ name_servers = <<>> /\ additional_records = <<>>
    /\ parse(data).ok
    /\ parse(data).val.queries = queries

C26_Witness ==
  /\ data = SpotifyConnectQuery
  /\ Len(data) = 45
  /\ Accepted
  /\ Len(queries) = 1

\* the sections in the order message::parse decodes them
PcOrder(p) ==
  CASE p = "header" -> 0
    [] p = "queries" -> 1
    [] p = "answers" -> 2
    [] p = "name_servers" -> 3
    [] p = "additional_records" -> 4
    [] p = "done" -> 5

\* the record that starts at p, measured on the wire: its name, the ten bytes
\* of TYPE, CLASS, TTL and RDLENGTH, and RDLENGTH bytes of RDATA
WireRecordEnd(d, p) ==
  WireNameEnd(d, p) + 10
    + U16(At(d, WireNameEnd(d, p) + 8), At(d, WireNameEnd(d, p) + 9))

RecordPushed == DecodesRecord /\ Len(AllRecords') = Len(AllRecords) + 1

\* a section is begun only when the sections before it are complete, and
\* while it is decoded the later sections are empty
SectionsInOrder ==
  /\ PcOrder(pc) <= 1 => answers = <<>>
  /\ PcOrder(pc) <= 2 => name_servers = <<>>
  /\ PcOrder(pc) <= 3 => additional_records = <<>>
  /\ PcOrder(pc) \in 2..4 => Len(queries) = header.question_count
  /\ PcOrder(pc) \in 3..4 => Len(answers) = header.answer_count
  /\ PcOrder(pc) = 4 => Len(name_servers) = header.name_server_count

\* C27: message::parse goes through header, questions, answers, authority and
\* additional records in that order and never back: the questions start at
\* offset 12, every question and record starts where the one before it ended
\* on the wire, every later section starts at the offset where the section
\* before it ended (its start plus the sizes of its items), and no section is
\* decoded before an earlier one is complete.
C27_MonotoneAdvance ==
  /\ [][/\ PcOrder(pc') >= PcOrder(pc)
        /\ current_offset' >= current_offset
        /\ section_offset' >= section_offset]_vars
  /\ [][(ParseHeader /\ pc' = "queries")
          => (current_offset' = 12 /\ section_offset' = 12)]_vars
  /\ [][QueryPushed
          => current_offset' = WireNameEnd(data, current_offset) + 4]_vars
  /\ [][RecordPushed
          => current_offset' = WireRecordEnd(data, current_offset)]_vars
  /\ [][(EndQueries \/ EndAnswers \/ EndNameServers)
          => /\ PcOrder(pc') = PcOrder(pc) + 1
             /\ section_offset' = current_offset
             /\ current_offset' = current_offset]_vars
  /\ []SectionsInOrder

C27_Witness ==
  /\ Accepted
  /\ Len(queries) = 1
  /\ Len(answers) = 1
  /\ Len(name_servers) = 1
  /\ section_offset = 12 + QuerySize(queries[1]) + RecordSize(answers[1])
                        + RecordSize(name_servers[1])
  /\ current_offset = section_offset

C27_WitnessAdditional ==
  /\ Accepted
  /\ Len(queries) = 1
  /\ Len(answers) = 1
  /\ Len(additional_records) = 1
  /\ section_offset = 12 + QuerySize(queries[1]) + RecordSize(answers[1])
  /\ current_offset = section_offset + RecordSize(additional_records[1])

\* the labels are literal labels closed by exactly one root or pointer label
EndsAtFirstTerminator(values) ==
  /\ Len(values) >= 1
  /\ IsRoot(LastOf(values)) \/ IsPointer(LastOf(values))
  /\ \A i \in 1..(Len(values) - 1) : ~IsRoot(values[i]) /\ ~IsPointer(values[i])

\* what parse_name returned for the bytes d read from start offset 0
StopsAtTerminator(d, r) ==
  r.ok => /\ EndsAtFirstTerminator(r.val)
          /\ SumSizes(r.val) = WireNameEnd(d, 0)

\* C28: parse_name stops at the first root label or the first compression
\* pointer it meets, and the on-wire size of the name it returns (the sum of
\* its labels' size()) is the number of bytes from the name's start through
\* that terminator, a pointer counting 2 bytes: the bytes
\* 3 'abc' 2 'de' 1 'f' C0 0A give three literal labels and Pointer(9, 10),
\* with a wire size of 11.
C28_NameStopsAtTerminator ==
  /\ Len(data) > 12 =>
       StopsAtTerminator(QuestionBytes, parse_name(0, QuestionBytes))
  /\ \A k \in 1..Len(queries) :
       /\ EndsAtFirstTerminator(queries[k].values)
       /\ SumSizes(queries[k].values)
            = WireNameEnd(data, ItemStart(queries[k])) - ItemStart(queries[k])
  /\ (Len(data) > 23 /\ Slice(data, 12, 23) = NameAbcDeFPtr10) =>
       /\ parse_name(0, Slice(data, 12, 23)).ok
       /\ parse_name(0, Slice(data, 12, 23)).val
            = <<LabelValue(0, <<97, 98, 99>>), LabelValue(4, <<100, 101>>),
                LabelValue(7, <<102>>), LabelPointer(9, 10)>>
       /\ SumSizes(parse_name(0, Slice(data, 12, 23)).val) = 11

C28_Witness ==
  /\ Accepted
  /\ Len(data) > 23
  /\ Slice(data, 12, 23) = NameAbcDeFPtr10
  /\ Len(queries) = 2
  /\ Len(queries[1].values) = 4
  /\ IsPointer(queries[1].values[4])
  /\ SumSizes(queries[1].values) = 11

\* the two bytes of the TYPE field of a question, and the same bytes with the
\* top bit of the first cleared
TypeFieldOf(item) ==
  <<At(data, ClassFieldAt(item) - 2), At(data, ClassFieldAt(item) - 1)>>

TopBitCleared(bytes) == <<bytes[1] % 128, bytes[2]>>

\* C29: parse_q_type classifies the type by its low 15 bits, whatever the top
\* bit of the field is: the QType of every question decoded is the QType that
\* parse_q_type returns for the same two bytes with the top bit of the first
\* cleared (80 01 gives Type(A) as 00 01 does, 80 FF gives Any as 00 FF does).
C29_QTypeIgnoresTopBit ==
  \A k \in 1..Len(queries) :
    /\ queries[k].q_type = parse_q_type(TypeFieldOf(queries[k]))[2]
    /\ queries[k].q_type
         = parse_q_type(TopBitCleared(TypeFieldOf(queries[k])))[2]

\* C30: during the decoding of the records the label store only grows at its
\* end, and its labels are in strictly increasing order of offset, so that no
\* two stored labels share an offset and a pointer target matches at most one
\* of them; also when the name of a PTR record's RDATA is longer than the
\* RDLENGTH the record declares.
C30_LabelStoreStrictlyIncreasing ==
  /\ [][/\ Len(label_store') >= Len(label_store)
        /\ SubSeq(label_store', 1, Len(label_store)) = label_store]_vars
  /\ [](\A i \in 1..Len(label_store) : \A j \in 1..Len(label_store) :
          i < j => label_store[i].offset < label_store[j].offset)

====
